---------------------------- MODULE Spec2Model ----------------------------
(***************************************************************************)
(* A model of src/main/cpp/blaze_util.cc: the launcher's host-environment  *)
(* utilities (diagnostics, directory creation, whole-file read and write,  *)
(* terminal detection, option matching, process replacement).              *)
(*                                                                         *)
(* Strings are sequences of one-character strings.  The operating system   *)
(* is modelled by what POSIX lets each system call do: a file system (a    *)
(* map from the nodes that exist to what they are), a table of open file   *)
(* descriptors, and errno.  The user is unprivileged and the umask masks   *)
(* no owner bit.  Every library function is an operator computed the way   *)
(* the code computes it; an action applies one function to the state.      *)
(***************************************************************************)
EXTENDS Integers, Sequences, FiniteSets, TLC

VARIABLES
  inp,        \* the inputs of the run, drawn once by Init
  fs,         \* the file system: node (sequence of names) -> entry
  fds,        \* the process's open file descriptors
  errno,      \* the C library's errno
  proc,       \* the process: running, exited (with a status) or replaced
  last,       \* the most recent call: what was called, what it returned
  lastWrite,  \* the most recent WriteFile call
  hist        \* the MakeDirectories calls made so far, oldest first

vars == <<inp, fs, fds, errno, proc, last, lastWrite, hist>>

----------------------------------------------------------------------------
(* Bounds of the model.                                                    *)

MaxPathLen == 6      \* characters of a path handed to MakeDirectories
MaxCalls == 2        \* MakeDirectories calls in one run
MaxLen == 2          \* bytes of a file's content
MaxOpenFiles == 1    \* descriptors the process may hold (RLIMIT_NOFILE)
MaxReads == 2        \* read() calls of one ReadFile that return no data
MaxArgLen == 3       \* characters of a command-line token
MaxKeyLen == 2       \* characters of an option key
MaxArgc == 3         \* entries of an argument vector

----------------------------------------------------------------------------
(* Strings.                                                                *)

NUL == "\\0"

Strings(alphabet, n) == UNION {[1..k -> alphabet] : k \in 0..n}

\* The C string that starts at buf[from]: the characters before the first NUL.
RECURSIVE CStrFrom(_, _)
CStrFrom(buf, from) ==
  IF from > Len(buf) \/ buf[from] = NUL THEN <<>>
  ELSE <<buf[from]>> \o CStrFrom(buf, from + 1)

CStr(buf) == CStrFrom(buf, 1)

\* strchr(buf + from - 1, c): the index of the first c at or after buf[from],
\* before the terminating NUL; 0 is NULL.
RECURSIVE strchr(_, _, _)
strchr(buf, from, c) ==
  IF from > Len(buf) \/ buf[from] = NUL THEN 0
  ELSE IF buf[from] = c THEN from
  ELSE strchr(buf, from + 1, c)

----------------------------------------------------------------------------
(* The file system.                                                        *)

ENOENT == "ENOENT"
EEXIST == "EEXIST"
ENOTDIR == "ENOTDIR"
EACCES == "EACCES"
EISDIR == "EISDIR"
EMFILE == "EMFILE"
EINTR == "EINTR"
EIO == "EIO"
ENOSPC == "ENOSPC"
EBADF == "EBADF"
NoError == "0"

\* What a node is: a directory, a regular file with its bytes, or a device that
\* discards what is written and reads as empty ("sink", as /dev/null).  w: the
\* owner may write it; x: the owner may search it (a directory).
Entry(kind, w, x, data) == [kind |-> kind, w |-> w, x |-> x, data |-> data]
Dir(w, x) == Entry("dir", w, x, <<>>)
File(w, data) == Entry("file", w, FALSE, data)
Sink(w) == Entry("sink", w, FALSE, <<>>)

Root == <<>>
RootOnly == (Root :> Dir(TRUE, TRUE))

Put(fsys, node, e) == [n \in DOMAIN fsys \cup {node} |-> IF n = node THEN e ELSE fsys[n]]
Remove(fsys, node) == [n \in DOMAIN fsys \ {node} |-> fsys[n]]

\* The names of a path: what lies between its separators.  Relative paths are
\* resolved from the working directory, which is the root.
RECURSIVE Components(_)
Components(p) ==
  IF p = <<>> THEN <<>>
  ELSE LET i == strchr(p \o <<NUL>>, 1, "/")
       IN IF i = 0 THEN <<p>>
          ELSE IF i = 1 THEN Components(SubSeq(p, 2, Len(p)))
          ELSE <<SubSeq(p, 1, i - 1)>> \o Components(SubSeq(p, i + 1, Len(p)))

Parent(node) == SubSeq(node, 1, Len(node) - 1)

\* Path resolution down to `dir`: the first error on the way, or "ok".
RECURSIVE Walk(_, _, _)
Walk(fsys, dir, k) ==
  LET n == SubSeq(dir, 1, k)
  IN IF n \notin DOMAIN fsys THEN ENOENT
     ELSE IF fsys[n].kind # "dir" THEN ENOTDIR
     ELSE IF ~fsys[n].x THEN EACCES
     ELSE IF k = Len(dir) THEN "ok"
     ELSE Walk(fsys, dir, k + 1)

Resolve(fsys, dir) == Walk(fsys, dir, 0)

\* The owner bits of a mode: write (0200), search (0100).
OwnerW(mode) == ((mode \div 128) % 2) = 1
OwnerX(mode) == ((mode \div 64) % 2) = 1
OwnerWX(mode) == OwnerW(mode) /\ OwnerX(mode)

SysResult(fsys, ret, err) == [fs |-> fsys, ret |-> ret, errno |-> err]

\* mkdir(2).  err is errno before the call: a successful call leaves it alone.
mkdir(fsys, p, mode, err) ==
  LET node == Components(p)
  IN IF p = <<>> THEN SysResult(fsys, -1, ENOENT)
     ELSE IF node = Root THEN SysResult(fsys, -1, EEXIST)
     ELSE IF Resolve(fsys, Parent(node)) # "ok"
       THEN SysResult(fsys, -1, Resolve(fsys, Parent(node)))
     ELSE IF node \in DOMAIN fsys THEN SysResult(fsys, -1, EEXIST)
     ELSE IF ~fsys[Parent(node)].w THEN SysResult(fsys, -1, EACCES)
     ELSE SysResult(Put(fsys, node, Dir(OwnerW(mode), OwnerX(mode))), 0, err)

----------------------------------------------------------------------------
(* MakeDirectories.                                                        *)

\* buf with buf[i] overwritten by c.
Poke(buf, i, c) == [buf EXCEPT ![i] = c]

\* The body of the for loop, from the slash at buf[slash] (0: none is left) on.
RECURSIVE MakeDirectoriesFrom(_, _, _, _, _)
MakeDirectoriesFrom(fsys, buf, slash, mode, err) ==
  IF slash = 0
    THEN LET r == mkdir(fsys, CStr(buf), mode, err)
         IN IF r.ret = -1 /\ r.errno # EEXIST
              THEN SysResult(r.fs, -1, r.errno)
              ELSE SysResult(r.fs, 0, r.errno)
    ELSE LET r == mkdir(fsys, CStr(Poke(buf, slash, NUL)), mode, err)
         IN IF r.ret = -1 /\ r.errno # EEXIST
              THEN SysResult(r.fs, -1, r.errno)
              ELSE MakeDirectoriesFrom(r.fs, buf, strchr(buf, slash + 1, "/"),
                                       mode, r.errno)

\* MakeDirectories with the search for the first separator started at buf, not
\* at buf + 1: a leading separator then names the empty prefix.
MakeDirectoriesFromStart(fsys, path, mode, err) ==
  LET buf == path \o <<NUL, NUL>>
  IN MakeDirectoriesFrom(fsys, buf, strchr(buf, 1, "/"), mode, err)

\* path.push_back('\0') leaves the pushed NUL and the string's own terminator.
MakeDirectoriesF(fsys, path, mode, err) ==
  LET buf == path \o <<NUL, NUL>>
  IN MakeDirectoriesFrom(fsys, buf, strchr(buf, 2, "/"), mode, err)

PathChars == {"/", "a", "b"}
Paths == Strings(PathChars, MaxPathLen)
Modes == {493, 420, 365, 0}      \* 0755, 0644, 0555, 0000

A == <<"a">>
InitialTrees ==
  { RootOnly,
    Put(RootOnly, <<A>>, Dir(TRUE, TRUE)),
    Put(RootOnly, <<A>>, Dir(FALSE, TRUE)),
    Put(RootOnly, <<A>>, File(TRUE, <<>>)) }

Running == [state |-> "running"]
NoCall == [op |-> "none"]

InitMkdir ==
  /\ inp \in [path : Paths, mode : Modes, fs0 : InitialTrees]
  /\ fs = inp.fs0
  /\ fds = {}
  /\ errno = NoError
  /\ proc = Running
  /\ last = NoCall
  /\ lastWrite = NoCall
  /\ hist = <<>>

MakeDirectories ==
  /\ proc = Running
  /\ Len(hist) < MaxCalls
  /\ LET r == MakeDirectoriesF(fs, inp.path, inp.mode, errno)
     IN /\ fs' = r.fs
        /\ errno' = r.errno
        /\ last' = [op |-> "MakeDirectories", ret |-> r.ret]
        /\ hist' = Append(hist, [ret |-> r.ret, before |-> fs, after |-> r.fs])
  /\ UNCHANGED <<inp, fds, proc, lastWrite>>

NextMkdir == MakeDirectories

SpecMkdir == InitMkdir /\ [][NextMkdir]_vars

IsDir(fsys, node) == node \in DOMAIN fsys /\ fsys[node].kind = "dir"

\* No component of path exists in fsys.
Fresh(fsys, path) ==
  \A k \in 1..Len(Components(path)) :
    SubSeq(Components(path), 1, k) \notin DOMAIN fsys

\* Every prefix of path that ends at a separator, and path itself, is a directory.
PrefixesAreDirs(fsys, path) ==
  /\ \A i \in 1..Len(path) :
       path[i] = "/" => IsDir(fsys, Components(SubSeq(path, 1, i)))
  /\ IsDir(fsys, Components(path))

FirstCallCreates ==
  Len(hist) >= 1 => hist[1].ret = 0 /\ PrefixesAreDirs(hist[1].after, inp.path)

SecondCallIsNoOp ==
  Len(hist) >= 2 => hist[2].ret = 0 /\ hist[2].after = hist[2].before

\* C3 as stated: on a file system where no component of path exists,
\* MakeDirectories(path, mode) makes every prefix that ends at a separator, and
\* path itself, a directory and returns 0, and a second call returns 0 and
\* changes nothing, for every path that names something and every mode.
C3_AsStated ==
  /\ Fresh(inp.fs0, inp.path)
  /\ Components(inp.path) # <<>>
  => FirstCallCreates /\ SecondCallIsNoOp

\* C3, amended: the same, for a mode whose owner bits grant write and search
\* permission (or a path of a single component, where no directory is created
\* inside one made by the call).
C3_MakeDirectoriesCreatesAndIsIdempotent ==
  /\ Fresh(inp.fs0, inp.path)
  /\ Components(inp.path) # <<>>
  /\ OwnerWX(inp.mode) \/ Len(Components(inp.path)) = 1
  => FirstCallCreates /\ SecondCallIsNoOp

C3_Witness ==
  /\ Len(hist) = 2
  /\ Fresh(inp.fs0, inp.path)
  /\ Len(Components(inp.path)) >= 3
  /\ inp.path[1] = "/"
  /\ OwnerWX(inp.mode)
  /\ hist[1].ret = 0
  /\ hist[1].after # hist[1].before
  /\ hist[2].after = hist[1].after

----------------------------------------------------------------------------
(* Whole-file write and read.                                              *)

BufSize == 4096      \* char buf[4096] of ReadFile

Bytes == {0, 1}      \* 0 is the null byte
Contents == Strings(Bytes, MaxLen)

IsPrefix(s, t) == Len(s) <= Len(t) /\ SubSeq(t, 1, Len(s)) = s

\* The lowest descriptor not in use (0, 1 and 2 are the standard streams).
FreeFd(fdset) == CHOOSE n \in 3..(3 + Cardinality(fdset)) :
                   n \notin fdset /\ \A m \in 3..(n - 1) : m \in fdset

FdResult(fsys, fdset, fd, err) == [fs |-> fsys, fds |-> fdset, fd |-> fd, errno |-> err]

\* unlink(2).
unlink(fsys, p, err) ==
  LET node == Components(p)
  IN IF p = <<>> THEN SysResult(fsys, -1, ENOENT)
     ELSE IF node = Root THEN SysResult(fsys, -1, EISDIR)
     ELSE IF Resolve(fsys, Parent(node)) # "ok"
       THEN SysResult(fsys, -1, Resolve(fsys, Parent(node)))
     ELSE IF node \notin DOMAIN fsys THEN SysResult(fsys, -1, ENOENT)
     ELSE IF fsys[node].kind = "dir" THEN SysResult(fsys, -1, EISDIR)
     ELSE IF ~fsys[Parent(node)].w THEN SysResult(fsys, -1, EACCES)
     ELSE SysResult(Remove(fsys, node), 0, err)

\* open(p, O_CREAT|O_WRONLY, 0755): O_TRUNC left out, a file that exists keeps
\* its bytes.
OpenForWriteNoTrunc(fsys, fdset, p, err) ==
  LET node == Components(p)
  IN IF p = <<>> THEN FdResult(fsys, fdset, -1, ENOENT)
     ELSE IF Cardinality(fdset) >= MaxOpenFiles THEN FdResult(fsys, fdset, -1, EMFILE)
     ELSE IF node = Root THEN FdResult(fsys, fdset, -1, EISDIR)
     ELSE IF Resolve(fsys, Parent(node)) # "ok"
       THEN FdResult(fsys, fdset, -1, Resolve(fsys, Parent(node)))
     ELSE IF node \notin DOMAIN fsys
       THEN IF ~fsys[Parent(node)].w THEN FdResult(fsys, fdset, -1, EACCES)
            ELSE FdResult(Put(fsys, node, File(TRUE, <<>>)),
                          fdset \cup {FreeFd(fdset)}, FreeFd(fdset), err)
     ELSE IF fsys[node].kind = "dir" THEN FdResult(fsys, fdset, -1, EISDIR)
     ELSE IF ~fsys[node].w THEN FdResult(fsys, fdset, -1, EACCES)
     ELSE FdResult(fsys, fdset \cup {FreeFd(fdset)}, FreeFd(fdset), err)

\* open(p, O_CREAT|O_WRONLY|O_TRUNC, 0755).
OpenForWrite(fsys, fdset, p, err) ==
  LET node == Components(p)
  IN IF p = <<>> THEN FdResult(fsys, fdset, -1, ENOENT)
     ELSE IF Cardinality(fdset) >= MaxOpenFiles THEN FdResult(fsys, fdset, -1, EMFILE)
     ELSE IF node = Root THEN FdResult(fsys, fdset, -1, EISDIR)
     ELSE IF Resolve(fsys, Parent(node)) # "ok"
       THEN FdResult(fsys, fdset, -1, Resolve(fsys, Parent(node)))
     ELSE IF node \notin DOMAIN fsys
       THEN IF ~fsys[Parent(node)].w THEN FdResult(fsys, fdset, -1, EACCES)
            ELSE FdResult(Put(fsys, node, File(TRUE, <<>>)),
                          fdset \cup {FreeFd(fdset)}, FreeFd(fdset), err)
     ELSE IF fsys[node].kind = "dir" THEN FdResult(fsys, fdset, -1, EISDIR)
     ELSE IF ~fsys[node].w THEN FdResult(fsys, fdset, -1, EACCES)
     ELSE FdResult(Put(fsys, node, [fsys[node] EXCEPT !.data = <<>>]),
                   fdset \cup {FreeFd(fdset)}, FreeFd(fdset), err)

\* open(p, O_RDONLY).  A directory opens; reading it is what fails.
OpenForRead(fsys, fdset, p, err) ==
  LET node == Components(p)
  IN IF p = <<>> THEN FdResult(fsys, fdset, -1, ENOENT)
     ELSE IF Cardinality(fdset) >= MaxOpenFiles THEN FdResult(fsys, fdset, -1, EMFILE)
     ELSE IF node # Root /\ Resolve(fsys, Parent(node)) # "ok"
       THEN FdResult(fsys, fdset, -1, Resolve(fsys, Parent(node)))
     ELSE IF node \notin DOMAIN fsys THEN FdResult(fsys, fdset, -1, ENOENT)
     ELSE FdResult(fsys, fdset \cup {FreeFd(fdset)}, FreeFd(fdset), err)

\* What the system may answer to write(fd, data, n): all n bytes, fewer, or an error.
WriteErrors == {ENOSPC}
WriteOutcomes(n) ==
  {[r |-> k, errno |-> NoError] : k \in 0..n}
    \cup {[r |-> -1, errno |-> e] : e \in IF n = 0 THEN {} ELSE WriteErrors}

\* What the system may answer to close(fd); the descriptor is released either way.
CloseErrors == {EIO}
CloseOutcomes == {[r |-> 0, errno |-> NoError]} \cup {[r |-> -1, errno |-> e] : e \in CloseErrors}

\* The node after write() put wo.r bytes of content at offset 0, over what it held.
Written(e, content, wo) ==
  IF e.kind = "file" /\ wo.r > 0
    THEN [e EXCEPT !.data = SubSeq(content, 1, wo.r)
                            \o SubSeq(e.data, wo.r + 1, Len(e.data))]
    ELSE e

WriteFileResult(fsys, fdset, err, ret, opened, r, werr, cfail) ==
  [fs |-> fsys, fds |-> fdset, errno |-> err, ret |-> ret,
   opened |-> opened, r |-> r, werr |-> werr, cfail |-> cfail]

\* WriteFile, with the answers wo and co of the system to write() and close().
WriteFileF(fsys, fdset, err, content, filename, wo, co) ==
  LET u == unlink(fsys, filename, err)
      o == OpenForWrite(u.fs, fdset, filename, u.errno)
      node == Components(filename)
      fs2 == Put(o.fs, node, Written(o.fs[node], content, wo))
      errno2 == IF wo.r = -1 THEN wo.errno ELSE o.errno
      saved_errno == errno2
      fds3 == o.fds \ {o.fd}
  IN IF o.fd = -1
       THEN WriteFileResult(o.fs, o.fds, o.errno, FALSE, FALSE, 0, NoError, FALSE)
     ELSE IF co.r # 0
       THEN WriteFileResult(fs2, fds3, co.errno, FALSE, TRUE, wo.r, wo.errno, TRUE)
     ELSE WriteFileResult(fs2, fds3, saved_errno, wo.r = Len(content),
                          TRUE, wo.r, wo.errno, FALSE)

\* What the system may answer to one read(): an interruption, another error, one
\* byte, or all it has (up to the buffer's size).  A schedule lists the answers
\* of the first reads; later reads return all there is.
ReadAnswers == {"EINTR", "EIO", "one"}
Schedules == Strings(ReadAnswers, MaxReads)

Min(a, b) == IF a < b THEN a ELSE b

ReadFileResult(fdset, err, ret, content) ==
  [fds |-> fdset, errno |-> err, ret |-> ret, content |-> content]

\* The while loop of ReadFile on descriptor fd of node e, off bytes already read.
RECURSIVE ReadLoop(_, _, _, _, _, _, _)
ReadLoop(e, fdset, fd, err, off, content, sched) ==
  LET answer == IF sched = <<>> THEN "all" ELSE Head(sched)
      rest == IF sched = <<>> THEN <<>> ELSE Tail(sched)
      left == Len(e.data) - off
      r == IF e.kind = "dir" \/ answer \in {"EINTR", "EIO"} THEN -1
           ELSE IF answer = "one" THEN Min(1, left)
           ELSE Min(BufSize, left)
      errno2 == IF r # -1 THEN err ELSE IF e.kind = "dir" THEN EISDIR ELSE answer
  IN IF r = 0 THEN ReadFileResult(fdset \ {fd}, errno2, TRUE, content)
     ELSE IF r = -1
       THEN IF errno2 = EINTR
              THEN ReadLoop(e, fdset, fd, errno2, off, content, rest)
              ELSE ReadFileResult(fdset, errno2, FALSE, content)
     ELSE ReadLoop(e, fdset, fd, errno2, off + r,
                   content \o SubSeq(e.data, off + 1, off + r), rest)

\* ReadFile with no content->clear(): the file's bytes follow what the buffer held.
ReadFileNoClear(fsys, fdset, err, filename, prior, sched) ==
  LET o == OpenForRead(fsys, fdset, filename, err)
  IN IF o.fd = -1 THEN ReadFileResult(o.fds, o.errno, FALSE, prior)
     ELSE ReadLoop(fsys[Components(filename)], o.fds, o.fd, o.errno, 0, prior, sched)

\* ReadFile into a buffer that held `prior`, the system answering by sched.
ReadFileF(fsys, fdset, err, filename, prior, sched) ==
  LET content == <<>>
      o == OpenForRead(fsys, fdset, filename, err)
  IN IF o.fd = -1 THEN ReadFileResult(o.fds, o.errno, FALSE, content)
     ELSE ReadLoop(fsys[Components(filename)], o.fds, o.fd, o.errno, 0, content, sched)

\* The file systems a run may start from: the file's directory missing, not a
\* directory, writable or not; the file itself absent, a file (writable or not,
\* empty or not), a directory or a device.
D == <<"d">>
F == <<"f">>
FileName == <<"d", "/", "f">>
OldContents == {<<>>, <<1, 0, 1>>}
Targets == {File(w, d) : w \in BOOLEAN, d \in OldContents}
             \cup {Sink(TRUE), Dir(TRUE, TRUE)}
InitialFiles ==
  {RootOnly, Put(RootOnly, <<D>>, File(TRUE, <<>>))}
    \cup {Put(RootOnly, <<D>>, Dir(w, TRUE)) : w \in BOOLEAN}
    \cup {Put(Put(RootOnly, <<D>>, Dir(w, TRUE)), <<D, F>>, t) :
            w \in BOOLEAN, t \in Targets}
PriorBuffers == {<<>>, <<1, 1>>}

\* What the path names in fsys: its entry, or "none".
At(fsys, filename) ==
  IF Components(filename) \in DOMAIN fsys THEN fsys[Components(filename)]
  ELSE Entry("none", FALSE, FALSE, <<>>)

InitFile ==
  /\ inp \in [filename : {FileName}, fs0 : InitialFiles]
  /\ fs = inp.fs0
  /\ fds = {}
  /\ errno = NoError
  /\ proc = Running
  /\ last = NoCall
  /\ lastWrite = NoCall
  /\ hist = <<>>

\* The answers the system is asked for: those of write() and close() only once
\* open() has succeeded, those of read() only once open() has succeeded.
NoWrite == [r |-> 0, errno |-> NoError]
NoClose == [r |-> 0, errno |-> NoError]
WriteAnswers(fsys, fdset, err, content, filename) ==
  IF OpenForWrite(unlink(fsys, filename, err).fs, fdset, filename, err).fd = -1
    THEN {<<NoWrite, NoClose>>}
    ELSE WriteOutcomes(Len(content)) \X CloseOutcomes
ReadSchedules(fsys, fdset, err, filename) ==
  IF OpenForRead(fsys, fdset, filename, err).fd = -1 THEN {<<>>} ELSE Schedules

WriteFile ==
  /\ proc = Running
  /\ \E content \in Contents :
       \E a \in WriteAnswers(fs, fds, errno, content, inp.filename) :
         \E res \in {WriteFileF(fs, fds, errno, content, inp.filename, a[1], a[2])} :
            /\ fs' = res.fs
            /\ fds' = res.fds
            /\ errno' = res.errno
            /\ last' = [op |-> "WriteFile", content |-> content, ret |-> res.ret,
                        opened |-> res.opened, r |-> res.r, werr |-> res.werr,
                        cfail |-> res.cfail]
            /\ lastWrite' = [op |-> "WriteFile", content |-> content, ret |-> res.ret]
  /\ UNCHANGED <<inp, proc, hist>>

ReadFile ==
  /\ proc = Running
  /\ \E prior \in PriorBuffers, sched \in ReadSchedules(fs, fds, errno, inp.filename) :
       \E res \in {ReadFileF(fs, fds, errno, inp.filename, prior, sched)} :
          /\ fds' = res.fds
          /\ errno' = res.errno
          /\ last' = [op |-> "ReadFile", content |-> res.content, ret |-> res.ret,
                      prior |-> prior]
  /\ UNCHANGED <<inp, fs, proc, lastWrite, hist>>

NextFile == WriteFile \/ ReadFile

SpecFile == InitFile /\ [][NextFile]_vars

\* WriteFile alone, called any number of times by a process that holds no
\* descriptor or as many as it may.
HeldDescriptors == {{}, 3..(2 + MaxOpenFiles)}

InitWrite ==
  /\ inp \in [filename : {FileName}, fs0 : InitialFiles, fds0 : HeldDescriptors]
  /\ fs = inp.fs0
  /\ fds = inp.fds0
  /\ errno = NoError
  /\ proc = Running
  /\ last = NoCall
  /\ lastWrite = NoCall
  /\ hist = <<>>

NextWrite == WriteFile

SpecWrite == InitWrite /\ [][NextWrite]_vars

\* C1 as stated: whatever the path held, reading it back with ReadFile after
\* WriteFile(C, path) succeeds and yields exactly C.
C1_AsStated ==
  last.op = "ReadFile" /\ lastWrite.op = "WriteFile"
  => last.ret /\ last.content = lastWrite.content

\* C1, amended: when WriteFile(C, path) and the ReadFile after it both report
\* success and the path names a regular file, ReadFile yields exactly C,
\* whatever its buffer held before.
C1_RoundTrip ==
  /\ last.op = "ReadFile" /\ last.ret
  /\ lastWrite.op = "WriteFile" /\ lastWrite.ret
  /\ At(fs, inp.filename).kind = "file"
  => last.content = lastWrite.content

C1_Witness ==
  /\ last.op = "ReadFile" /\ last.ret
  /\ lastWrite.op = "WriteFile" /\ lastWrite.ret
  /\ At(inp.fs0, inp.filename).data # <<>>
  /\ last.prior # <<>>
  /\ last.content = lastWrite.content
  /\ Len(last.content) >= 2
  /\ \E i \in 1..Len(last.content) : last.content[i] = 0

\* C2 as stated: after every WriteFile(content, path) the path does not exist
\* or holds exactly content (here only for a path that named nothing or a
\* regular file before the call).
C2_AsStated ==
  [][last'.op = "WriteFile" /\ At(fs, inp.filename).kind \in {"none", "file"}
     => \/ At(fs', inp.filename).kind = "none"
        \/ /\ At(fs', inp.filename).kind = "file"
           /\ At(fs', inp.filename).data = last'.content]_vars

\* C2, amended: every WriteFile(content, path) leaves the path absent, or as it
\* was before the call, or a file holding a prefix of content, which is all of
\* content when the call reports success; never bytes of the previous file
\* combined with new ones.
C2_NoResidualContent ==
  [][last'.op = "WriteFile"
     => /\ \/ At(fs', inp.filename).kind = "none"
           \/ At(fs', inp.filename) = At(fs, inp.filename)
           \/ /\ At(fs', inp.filename).kind = "file"
              /\ IsPrefix(At(fs', inp.filename).data, last'.content)
        /\ last'.ret /\ At(fs', inp.filename).kind = "file"
           => At(fs', inp.filename).data = last'.content]_vars

C2_Witness ==
  /\ last.op = "WriteFile" /\ ~last.ret /\ last.opened
  /\ At(inp.fs0, inp.filename).data # <<>>
  /\ ~inp.fs0[<<D>>].w
  /\ last.r >= 1 /\ last.r < Len(last.content)
  /\ At(fs, inp.filename).data = SubSeq(last.content, 1, last.r)

\* C7 as stated: WriteFile reports failure when write() took another number of
\* bytes than asked or close() failed, and whenever it fails after write() set
\* errno, the caller finds that errno, also when close() failed too.
C7_AsStated ==
  last.op = "WriteFile" /\ last.opened
  => /\ last.r # Len(last.content) \/ last.cfail => ~last.ret
     /\ ~last.ret /\ last.r = -1 => errno = last.werr

\* C10 as stated: a call of ReadFile, successful or not, leaves the set of
\* open descriptors as it found it.
C10_AsStated == [][last'.op = "ReadFile" => fds' = fds]_vars

----------------------------------------------------------------------------
(* Diagnostics.                                                            *)

Exited(status) == [state |-> "exited", status |-> status]

\* blaze_exit_code.h
BAD_ARGV == "BAD_ARGV"
LOCAL_ENVIRONMENTAL_ERROR == "LOCAL_ENVIRONMENTAL_ERROR"

\* strerror(3)
strerror(e) ==
  CASE e = NoError -> "Success"
    [] e = ENOENT -> "No such file or directory"
    [] e = EACCES -> "Permission denied"
    [] e = EBADF -> "Bad file descriptor"
    [] e = EINTR -> "Interrupted system call"
    [] e = EIO -> "Input/output error"
    [] OTHER -> "Unknown error"

\* What a write to stderr does to errno: nothing, or the error it met.
Unchanged == "unchanged"
StderrEffects == {Unchanged, EBADF, EINTR, EIO}
After(err, effect) == IF effect = Unchanged THEN err ELSE effect

\* die: the message goes to stderr, the process exits.
dieF(exit_status) == [proc |-> Exited(exit_status)]

\* pdie, the three writes to stderr having the effects e1, e2, e3 on errno.
pdieF(exit_status, err, e1, e2, e3) ==
  LET errno1 == After(err, e1)          \* fprintf(stderr, "Error: ")
      errno2 == After(errno1, e2)       \* vfprintf(stderr, format, ap)
      text == strerror(errno2)
      errno3 == After(errno2, e3)       \* fprintf(stderr, ": %s\n", ...)
  IN [proc |-> Exited(exit_status), reported |-> text, errno |-> errno3]

ExitCodes == {BAD_ARGV, LOCAL_ENVIRONMENTAL_ERROR}
FailedWith == {ENOENT, EACCES, EBADF, EINTR, EIO}

InitDiag ==
  /\ inp \in [exit_status : ExitCodes, errno0 : FailedWith]
  /\ fs = RootOnly
  /\ fds = {}
  /\ errno = inp.errno0
  /\ proc = Running
  /\ last = NoCall
  /\ lastWrite = NoCall
  /\ hist = <<>>

die ==
  /\ proc = Running
  /\ proc' = dieF(inp.exit_status).proc
  /\ last' = [op |-> "die"]
  /\ UNCHANGED <<inp, fs, fds, errno, lastWrite, hist>>

pdie ==
  /\ proc = Running
  /\ \E e1 \in StderrEffects, e2 \in StderrEffects, e3 \in StderrEffects :
       \E res \in {pdieF(inp.exit_status, errno, e1, e2, e3)} :
          /\ proc' = res.proc
          /\ errno' = res.errno
          /\ last' = [op |-> "pdie", reported |-> res.reported]
  /\ UNCHANGED <<inp, fs, fds, lastWrite, hist>>

NextDiag == die \/ pdie

SpecDiag == InitDiag /\ [][NextDiag]_vars

\* C8 as stated: pdie reports the description of the errno that was current
\* when it was called, whatever its own writes to stderr do to errno, and exits
\* with the status it was given.
C8_AsStated ==
  last.op = "pdie"
  => last.reported = strerror(inp.errno0) /\ proc = Exited(inp.exit_status)

----------------------------------------------------------------------------
(* Terminal detection.                                                     *)

\* An environment variable: unset, or set to a value.
Unset == [set |-> FALSE, val |-> ""]
Set(v) == [set |-> TRUE, val |-> v]

\* getenv(name) == nullptr ? "" : getenv(name)
OrEmpty(v) == IF ~v.set THEN "" ELSE v.val

\* IsStandardTerminal with || between the two isatty calls.
IsStandardTerminalEither(TERM, EMACS, outTty, errTty) ==
  LET term == OrEmpty(TERM)
      emacs == OrEmpty(EMACS)
  IN IF \/ term = "" \/ term = "dumb" \/ term = "emacs" \/ term = "xterm-mono"
        \/ term = "symbolics" \/ term = "9term" \/ emacs = "t"
       THEN FALSE
       ELSE outTty \/ errTty

IsStandardTerminalF(TERM, EMACS, outTty, errTty) ==
  LET term == OrEmpty(TERM)
      emacs == OrEmpty(EMACS)
  IN IF \/ term = "" \/ term = "dumb" \/ term = "emacs" \/ term = "xterm-mono"
        \/ term = "symbolics" \/ term = "9term" \/ emacs = "t"
       THEN FALSE
       ELSE outTty /\ errTty

TermValues ==
  {Unset} \cup {Set(v) : v \in {"", "dumb", "emacs", "xterm-mono", "symbolics",
                                "9term", "xterm", "Dumb", "t"}}
EmacsValues == {Unset} \cup {Set(v) : v \in {"", "t", "T", "dumb"}}

InitTerm ==
  /\ inp \in [TERM : TermValues, EMACS : EmacsValues,
              outTty : BOOLEAN, errTty : BOOLEAN]
  /\ fs = RootOnly
  /\ fds = {}
  /\ errno = NoError
  /\ proc = Running
  /\ last = NoCall
  /\ lastWrite = NoCall
  /\ hist = <<>>

IsStandardTerminal ==
  /\ proc = Running
  /\ last' = [op |-> "IsStandardTerminal",
              ret |-> IsStandardTerminalF(inp.TERM, inp.EMACS, inp.outTty, inp.errTty)]
  /\ UNCHANGED <<inp, fs, fds, errno, proc, lastWrite, hist>>

NextTerm == IsStandardTerminal

SpecTerm == InitTerm /\ [][NextTerm]_vars

DumbTerms == {"dumb", "emacs", "xterm-mono", "symbolics", "9term"}

\* C9: IsStandardTerminal returns true exactly when stdout and stderr are both
\* terminals, TERM is set, not empty and none of dumb, emacs, xterm-mono,
\* symbolics, 9term, and EMACS is not set to "t".
C9_InteractiveTerminal ==
  last.op = "IsStandardTerminal"
  => (last.ret <=> /\ inp.outTty /\ inp.errTty
                   /\ inp.TERM.set /\ inp.TERM.val # ""
                   /\ inp.TERM.val \notin DumbTerms
                   /\ ~(inp.EMACS.set /\ inp.EMACS.val = "t"))

C9_Witness ==
  /\ last.op = "IsStandardTerminal" /\ last.ret
  /\ inp.TERM = Set("xterm") /\ inp.EMACS = Set("T")

----------------------------------------------------------------------------
(* Option matching.                                                        *)

\* A C string pointer: NULL, or the string it points to.
NULLPTR == [null |-> TRUE, str |-> <<>>]
Ptr(str) == [null |-> FALSE, str |-> str]

\* s[i] of a C string: the terminating NUL past its end.
CharAt(str, i) == IF i <= Len(str) THEN str[i] ELSE NUL

\* blaze_util::var_strprefix (util/strings.h): what follows prefix in str, or
\* NULL when str does not start with prefix.
var_strprefix(str, prefix) ==
  IF Len(prefix) <= Len(str) /\ SubSeq(str, 1, Len(prefix)) = prefix
    THEN Ptr(SubSeq(str, Len(prefix) + 1, Len(str)))
    ELSE NULLPTR

\* GetUnaryOption without the test for trailing garbage.
GetUnaryOptionNoGarbageTest(arg, next_arg, key) ==
  LET value == var_strprefix(arg, key)
  IN IF value.null THEN NULLPTR
     ELSE IF CharAt(value.str, 1) = "=" THEN Ptr(Tail(value.str))
     ELSE next_arg

GetUnaryOptionF(arg, next_arg, key) ==
  LET value == var_strprefix(arg, key)
  IN IF value.null THEN NULLPTR
     ELSE IF CharAt(value.str, 1) = "=" THEN Ptr(Tail(value.str))
     ELSE IF CharAt(value.str, 1) # NUL THEN NULLPTR
     ELSE next_arg

OptionResult(ret, p) == [ret |-> ret, proc |-> p]

\* GetNullaryOption that answers false to key=value.
GetNullaryOptionNoDie(arg, key) ==
  LET value == var_strprefix(arg, key)
  IN IF value.null THEN OptionResult("false", Running)
     ELSE IF CharAt(value.str, 1) # NUL THEN OptionResult("false", Running)
     ELSE OptionResult("true", Running)

GetNullaryOptionF(arg, key) ==
  LET value == var_strprefix(arg, key)
  IN IF value.null THEN OptionResult("false", Running)
     ELSE IF CharAt(value.str, 1) = "="
       THEN OptionResult("none", dieF(BAD_ARGV).proc)
     ELSE IF CharAt(value.str, 1) # NUL THEN OptionResult("false", Running)
     ELSE OptionResult("true", Running)

OptChars == {"f", "o", "="}
Args == Strings(OptChars, MaxArgLen)
Keys == Strings(OptChars, MaxKeyLen)
NextArgs == {NULLPTR, Ptr(<<"o">>)}

InitOpt ==
  /\ inp \in [arg : Args, next_arg : NextArgs, key : Keys]
  /\ fs = RootOnly
  /\ fds = {}
  /\ errno = NoError
  /\ proc = Running
  /\ last = NoCall
  /\ lastWrite = NoCall
  /\ hist = <<>>

GetUnaryOption ==
  /\ proc = Running
  /\ last' = [op |-> "GetUnaryOption",
              ret |-> GetUnaryOptionF(inp.arg, inp.next_arg, inp.key)]
  /\ UNCHANGED <<inp, fs, fds, errno, proc, lastWrite, hist>>

GetNullaryOption ==
  /\ proc = Running
  /\ \E res \in {GetNullaryOptionF(inp.arg, inp.key)} :
       /\ last' = [op |-> "GetNullaryOption", ret |-> res.ret]
       /\ proc' = res.proc
  /\ UNCHANGED <<inp, fs, fds, errno, lastWrite, hist>>

NextOpt == GetUnaryOption \/ GetNullaryOption

SpecOpt == InitOpt /\ [][NextOpt]_vars

\* arg is key followed by '=' and a (possibly empty) value.
IsKeyEqualsValue(arg, key) ==
  \E v \in Strings(OptChars, MaxArgLen) : arg = key \o <<"=">> \o v

ValueOf(arg, key) == SubSeq(arg, Len(key) + 2, Len(arg))

\* C4: GetUnaryOption(arg, next_arg, key) returns what follows the '=' when arg
\* is key=value, next_arg when arg is exactly key, and NULL in every other case.
C4_UnaryOption ==
  last.op = "GetUnaryOption"
  => last.ret = IF IsKeyEqualsValue(inp.arg, inp.key)
                  THEN Ptr(ValueOf(inp.arg, inp.key))
                ELSE IF inp.arg = inp.key THEN inp.next_arg
                ELSE NULLPTR

C4_Witness ==
  /\ last.op = "GetUnaryOption"
  /\ inp.key = <<"f">> /\ inp.arg = <<"f", "=", "o">>
  /\ last.ret = Ptr(<<"o">>)

\* C5: GetNullaryOption(arg, key) returns true only when arg is exactly key,
\* false when arg does not start with key or goes on with a character other
\* than '=', and when arg is key=value it ends the process with BAD_ARGV and
\* returns nothing.
C5_NullaryOption ==
  last.op = "GetNullaryOption"
  => IF IsKeyEqualsValue(inp.arg, inp.key)
       THEN last.ret = "none" /\ proc = Exited(BAD_ARGV)
     ELSE IF inp.arg = inp.key THEN last.ret = "true" /\ proc = Running
     ELSE last.ret = "false" /\ proc = Running

C5_Witness ==
  /\ last.op = "GetNullaryOption"
  /\ inp.key = <<"f">> /\ inp.arg = <<"f", "=", "o">>
  /\ proc = Exited(BAD_ARGV)

----------------------------------------------------------------------------
(* Process replacement.                                                    *)

\* What execv(path, argv) may do: replace the process, or fail and return.
ExecAnswers == {"replaced", ENOENT, EACCES}

\* ExecuteProgram: the vector copied to an array of C strings, NULL after the
\* last, and handed to execv.
ExecuteProgramF(exe, args_vector, answer, err) ==
  LET n == Len(args_vector)
      argv == [i \in 1..(n + 1) |->
                 IF i <= n THEN Ptr(CStr(args_vector[i])) ELSE NULLPTR]
  IN [path |-> CStr(exe), argv |-> argv,
      proc |-> IF answer = "replaced" THEN [state |-> "replaced"] ELSE Running,
      errno |-> IF answer = "replaced" THEN err ELSE answer]

\* args after the loop  for (i = from; i < argc; i++) args.push_back(argv[i]),
\* argv[i] of the code being argv[i + 1] here.
RECURSIVE PushArgs(_, _, _, _)
PushArgs(args, i, argc, argv) ==
  IF i < argc THEN PushArgs(Append(args, argv[i + 1]), i + 1, argc, argv) ELSE args

\* ReExecute whose loop starts at argv[0].
ReExecuteFromZero(executable, argc, argv, answer, err) ==
  LET args == PushArgs(<<executable>>, 0, argc, argv)
  IN ExecuteProgramF(args[1], args, answer, err)

ReExecuteF(executable, argc, argv, answer, err) ==
  LET args == PushArgs(<<executable>>, 1, argc, argv)
  IN ExecuteProgramF(args[1], args, answer, err)

Tokens == {<<>>, <<"-", "x">>, <<"y">>}
Executables == {<<"/", "b">>, <<"b">>}

InitExec ==
  /\ inp \in [executable : Executables, argv : Strings(Tokens, MaxArgc)]
  /\ fs = RootOnly
  /\ fds = {}
  /\ errno = NoError
  /\ proc = Running
  /\ last = NoCall
  /\ lastWrite = NoCall
  /\ hist = <<>>

ReExecute ==
  /\ proc = Running
  /\ \E answer \in ExecAnswers :
       \E res \in {ReExecuteF(inp.executable, Len(inp.argv), inp.argv, answer, errno)} :
          /\ proc' = res.proc
          /\ errno' = res.errno
          /\ last' = [op |-> "ReExecute", path |-> res.path, argv |-> res.argv]
  /\ UNCHANGED <<inp, fs, fds, lastWrite, hist>>

NextExec == ReExecute

SpecExec == InitExec /\ [][NextExec]_vars

\* C6: ReExecute calls execv on the new executable with the vector made of the
\* new executable and argv[1..argc-1] in their order, ended by NULL, for every
\* argc >= 0.
C6_ReExecuteVector ==
  last.op = "ReExecute"
  => /\ last.path = inp.executable
     /\ Len(last.argv) = (IF Len(inp.argv) = 0 THEN 1 ELSE Len(inp.argv)) + 1
     /\ last.argv[1] = Ptr(inp.executable)
     /\ \A i \in 2..Len(inp.argv) : last.argv[i] = Ptr(inp.argv[i])
     /\ last.argv[Len(last.argv)] = NULLPTR

C6_Witness ==
  /\ last.op = "ReExecute"
  /\ Len(inp.argv) = 3
  /\ inp.argv[2] # inp.argv[3]
  /\ inp.argv[1] # inp.executable
  /\ proc = [state |-> "replaced"]

=============================================================================
